---- MODULE Spec2Model ----
(***************************************************************************)
(* A model of smretriever/client.py: SurveyMonkeyClient (a thin client     *)
(* over an embedded R runtime) and RPackageManager (its package cache).    *)
(*                                                                         *)
(* The R runtime, the remote survey service and the rpy2 bridge are the    *)
(* environment: what they return is drawn from small sets.  What the       *)
(* Python code does with it (dict(zip(...)) conversion, the NA pass, the   *)
(* bulk loop, the package cache, the constructor's try/except) is          *)
(* translated from the source.                                             *)
(***************************************************************************)
EXTENDS Integers, Sequences, FiniteSets, TLC

VARIABLES
    pc,           \* "start" | "ready" | "exited": the process around the client
    client,       \* [attrs: attributes assigned on self, returned: BOOLEAN]
    exitStatus,   \* -1 while running, else the status given to sys.exit
    packages,     \* RPackageManager.packages: package name -> handle
    rlib,         \* R library: the packages importr can load
    repo,         \* the packages install_packages can install
    nImports,     \* importr calls made in the runtime
    nInstalls,    \* install_packages calls made in the runtime
    rSurveys,     \* the R global `surveys`: [bound, df]
    lastSurveys,  \* the table the most recent get_available_surveys retrieved
    bulk,         \* the running download_multiple_surveys call
    remote,       \* what the survey service and the bridge answer: [up, rdf, raises]
    ret           \* the last call: its name, inputs and outcome

vars == <<pc, client, exitStatus, packages, rlib, repo, nImports, nInstalls,
          rSurveys, lastSurveys, bulk, remote, ret>>

pkgVars == <<pc, client, exitStatus, packages, rlib, repo, nImports, nInstalls>>

(***************************************************************************)
(* Bounds.                                                                 *)
(***************************************************************************)
MaxCalls == 12      \* importr calls the model follows
MaxRows == 2        \* rows of a table
MaxRaise == 1       \* cells of one table whose NA check raises
MaxIds == 3         \* length of a bulk id list

(***************************************************************************)
(* Helpers on sequences and functions.                                     *)
(***************************************************************************)
Range(s) == {s[i] : i \in DOMAIN s}

SeqsUpTo(S, n) == UNION {[1..k -> S] : k \in 0..n}

\* Python dict item assignment: d[k] = v
DictSet(d, k, v) == [x \in DOMAIN d \cup {k} |-> IF x = k THEN v ELSE d[x]]

(***************************************************************************)
(* RPackageManager                                                         *)
(***************************************************************************)
BasePkgs == {"utils", "base"}
RequiredPkgs == <<"tidyverse", "ggplot2", "surveymonkey", "readxl">>
OtherPkgs == {"dplyr"}
PkgNames == BasePkgs \cup Range(RequiredPkgs) \cup OtherPkgs

\* The runtime state import_package reads and writes.
MgrState == [packages |-> packages, rlib |-> rlib,
             nImports |-> nImports, nInstalls |-> nInstalls]

\* importr(p): a fresh handle when the package is in the R library.
Handle(p, n) == [pkg |-> p, obj |-> n]

\* A plausible bug: no cache lookup, every call imports again.
import_package_nocache(st, p) ==
    IF p \in st.rlib
    THEN [st EXCEPT !.nImports = @ + 1,
                    !.packages = DictSet(@, p, Handle(p, st.nImports + 1))]
            @@ [raised |-> FALSE, result |-> Handle(p, st.nImports + 1)]
    ELSE [st EXCEPT !.nImports = @ + 1]
            @@ [raised |-> TRUE, result |-> Handle("none", 0)]

\* RPackageManager.import_package: the state after the call, whether it
\* raised, and the handle it returned.
import_package(st, p) ==
    IF p \in DOMAIN st.packages
    THEN st @@ [raised |-> FALSE, result |-> st.packages[p]]
    ELSE IF p \in st.rlib
    THEN \* importr succeeds at once
         [st EXCEPT !.nImports = @ + 1,
                    !.packages = DictSet(@, p, Handle(p, st.nImports + 1))]
            @@ [raised |-> FALSE, result |-> Handle(p, st.nImports + 1)]
    ELSE IF p \in repo
    THEN \* importr raises, install_packages installs, importr succeeds
         [st EXCEPT !.nImports = @ + 2,
                    !.nInstalls = @ + 1,
                    !.rlib = @ \cup {p},
                    !.packages = DictSet(@, p, Handle(p, st.nImports + 2))]
            @@ [raised |-> FALSE, result |-> Handle(p, st.nImports + 2)]
    ELSE \* importr raises, the install installs nothing, importr raises again
         [st EXCEPT !.nImports = @ + 2, !.nInstalls = @ + 1]
            @@ [raised |-> TRUE, result |-> Handle("none", 0)]

\* RPackageManager.__init__: importr('utils'), importr('base'), the cache.
manager_init(st) ==
    [st EXCEPT !.nImports = @ + 2,
               !.packages = [p \in BasePkgs |->
                               Handle(p, IF p = "utils" THEN st.nImports + 1
                                                        ELSE st.nImports + 2)]]

\* The four import_package calls of SurveyMonkeyClient.__init__, in order,
\* stopping at the first that raises.  done: how many returned.
RECURSIVE import_required(_, _)
import_required(st, k) ==
    IF k > Len(RequiredPkgs) THEN st @@ [raised |-> FALSE, done |-> k - 1]
    ELSE LET r == import_package(st, RequiredPkgs[k])
             st2 == [packages |-> r.packages, rlib |-> r.rlib,
                     nImports |-> r.nImports, nInstalls |-> r.nInstalls]
         IN IF r.raised THEN st2 @@ [raised |-> TRUE, done |-> k - 1]
            ELSE import_required(st2, k + 1)

(***************************************************************************)
(* SurveyMonkeyClient.__init__                                             *)
(***************************************************************************)
RpyAttrs == {"robjects", "rinterface", "na_types"}
AllAttrs == RpyAttrs \cup {"r_manager"} \cup Range(RequiredPkgs)

\* A plausible bug: the handler logs the error and lets the constructor
\* return the object as far as it was initialised.
on_init_error_swallow(attrs) ==
    [pc |-> "ready", exitStatus |-> -1,
     client |-> [attrs |-> attrs, returned |-> TRUE, failed |-> TRUE]]

\* The except clause of __init__: print, print, sys.exit(1).
on_init_error(attrs) ==
    [pc |-> "exited", exitStatus |-> 1,
     client |-> [attrs |-> attrs, returned |-> FALSE, failed |-> TRUE]]

\* The try block of __init__, step by step.  rpy2ok: `import rpy2...` and the
\* NA table succeed; baseOk: RPackageManager() (importr of utils and base)
\* succeeds; tokenOk: the options(sm_oauth_token = ...) evaluation succeeds.
client_init(st, rpy2ok, baseOk, token, tokenOk) ==
    IF ~rpy2ok THEN st @@ [failed |-> TRUE, attrs |-> {}]
    ELSE IF ~baseOk
    THEN [st EXCEPT !.nImports = @ + 1] @@ [failed |-> TRUE, attrs |-> RpyAttrs]
    ELSE LET r == import_required(manager_init(st), 1)
             st2 == [packages |-> r.packages, rlib |-> r.rlib,
                     nImports |-> r.nImports, nInstalls |-> r.nInstalls]
             got == RpyAttrs \cup {"r_manager"}
                      \cup {RequiredPkgs[k] : k \in 1..r.done}
         IN IF r.raised THEN st2 @@ [failed |-> TRUE, attrs |-> got]
            ELSE IF token # "" /\ ~tokenOk
            THEN st2 @@ [failed |-> TRUE, attrs |-> got]
            ELSE st2 @@ [failed |-> FALSE, attrs |-> got]

Construct ==
    /\ pc = "start"
    /\ \E rpy2ok \in BOOLEAN, baseOk \in BOOLEAN, tokenOk \in BOOLEAN,
          token \in {"", "tok"} :
         LET r == client_init(MgrState, rpy2ok, baseOk, token, tokenOk)
             o == IF r.failed THEN on_init_error(r.attrs)
                  ELSE [pc |-> "ready", exitStatus |-> -1,
                        client |-> [attrs |-> r.attrs, returned |-> TRUE,
                                    failed |-> FALSE]]
         IN /\ pc' = o.pc
            /\ exitStatus' = o.exitStatus
            /\ client' = o.client
            /\ packages' = r.packages
            /\ rlib' = r.rlib
            /\ nImports' = r.nImports
            /\ nInstalls' = r.nInstalls
            /\ ret' = [op |-> "__init__", failed |-> r.failed]
    /\ UNCHANGED <<repo, rSurveys, lastSurveys, bulk, remote>>

\* client.r_manager.import_package(p), called on a constructed client.
ImportPackageCall(p) ==
    /\ pc = "ready"
    /\ nImports < MaxCalls
    /\ LET r == import_package(MgrState, p)
       IN /\ packages' = r.packages
          /\ rlib' = r.rlib
          /\ nImports' = r.nImports
          /\ nInstalls' = r.nInstalls
          /\ ret' = [op |-> "import_package", arg |-> p,
                     cached |-> p \in DOMAIN packages,
                     raised |-> r.raised, result |-> r.result]
    /\ UNCHANGED <<pc, client, exitStatus, repo, rSurveys, lastSurveys, bulk,
                   remote>>

NoTable == <<>>
NoBulk == [active |-> FALSE]
NoCall == [op |-> "none"]
NoRemote == [up |-> FALSE, rdf |-> NoTable, raises |-> {}]

InitPkg ==
    /\ pc = "start"
    /\ client = [attrs |-> {}, returned |-> FALSE, failed |-> FALSE]
    /\ exitStatus = -1
    /\ packages = <<>>
    /\ rlib \in SUBSET (PkgNames \ BasePkgs)
    /\ repo \in SUBSET (PkgNames \ BasePkgs)
    /\ nImports = 0
    /\ nInstalls = 0
    /\ rSurveys = [bound |-> FALSE, df |-> NoTable]
    /\ lastSurveys = [bound |-> FALSE, df |-> NoTable]
    /\ bulk = NoBulk
    /\ remote = NoRemote
    /\ ret = NoCall

NextPkg ==
    \/ Construct
    \/ \E p \in PkgNames : ImportPackageCall(p)

SpecPkg == InitPkg /\ [][NextPkg]_vars

\* C7: a failure anywhere in the constructor's try block ends the process
\* with status 1, and a client that was returned to the caller has every
\* attribute the constructor assigns and all four packages in the cache.
C7_InitFailureIsFatal ==
    /\ client.failed => (pc = "exited" /\ exitStatus = 1 /\ ~client.returned)
    /\ client.returned =>
          (/\ pc = "ready"
           /\ client.attrs = AllAttrs
           /\ Range(RequiredPkgs) \subseteq DOMAIN packages)
    /\ pc = "exited" => client.failed

\* A constructor that failed half way (some attributes set, not all) and exited.
C7_Witness ==
    /\ pc = "exited" /\ exitStatus = 1
    /\ "r_manager" \in client.attrs /\ client.attrs # AllAttrs

\* C5: import_package(p) for a p already in the cache returns the cached
\* handle, calls neither importr nor install_packages, and leaves the cache
\* and the R library as they were.
C5_CachedImport ==
    [][(pc = "ready" /\ ret'.op = "import_package"
          /\ ret'.arg \in DOMAIN packages)
        => (/\ ~ret'.raised
            /\ ret'.result = packages[ret'.arg]
            /\ UNCHANGED <<packages, rlib, nImports, nInstalls>>)]_vars

\* A second import_package("dplyr"), after a first one that imported it.
C5_Witness ==
    /\ ret.op = "import_package" /\ ret.cached /\ ret.arg \in OtherPkgs
    /\ nImports > 0

(***************************************************************************)
(* Tables.  An R data frame is a sequence of columns [name, rclass, cells]; *)
(* a cell is the element rpy2 yields for r_vector[j]: one of the NA        *)
(* singletons or a value.  A pandas DataFrame is [columns, data]: the      *)
(* column labels in order and, per label, the cells.                       *)
(***************************************************************************)
RIntMin == -2147483647 - 1     \* R's NA_integer_ as an integer

NA_Real == [tag |-> "NA_Real", v |-> 0]
NA_Integer == [tag |-> "NA_Integer", v |-> RIntMin]
NA_Character == [tag |-> "NA_Character", v |-> 0]
NA_Logical == [tag |-> "NA_Logical", v |-> RIntMin]
Val(x) == [tag |-> "val", v |-> x]

np_nan == [tag |-> "np.nan", v |-> 0]
pd_NA == [tag |-> "pd.NA", v |-> 0]
NoWrite == [tag |-> "none", v |-> 0]

\* The classes _replace_r_na_with_pandas_na has a branch for, and one it
\* has none for (an ordered factor: rclass[0] is "ordered").
HandledClasses == {"numeric", "integer", "character", "logical", "factor"}
RClasses == HandledClasses \cup {"ordered"}

\* The NA element of a vector of each class.
NAOf(rclass) ==
    CASE rclass = "numeric" -> NA_Real
      [] rclass = "integer" -> NA_Integer
      [] rclass = "character" -> NA_Character
      [] rclass = "logical" -> NA_Logical
      [] rclass = "factor" -> NA_Integer
      [] rclass = "ordered" -> NA_Integer

\* Whether the R runtime reports the element as missing.
RMissing(cell) == cell.tag # "val"

\* Whether a pandas cell holds a host missing marker.
HostMissing(cell) == cell \in {np_nan, pd_NA}

\* dict(zip(names, ...)): the keys, in the order of their first insertion.
RECURSIVE DictKeys(_)
DictKeys(names) ==
    IF names = <<>> THEN <<>>
    ELSE LET front == SubSeq(names, 1, Len(names) - 1)
             keys == DictKeys(front)
         IN IF names[Len(names)] \in Range(keys) THEN keys
            ELSE Append(keys, names[Len(names)])

Names(rdf) == [i \in DOMAIN rdf |-> rdf[i].name]

\* pd.DataFrame(dict(zip(r.names, list(r)))): a repeated name keeps the
\* place of its first column and the cells of its last.
ToPandas(rdf) ==
    [columns |-> DictKeys(Names(rdf)),
     data |-> [n \in Range(Names(rdf)) |->
                 LET last == CHOOSE i \in DOMAIN rdf :
                                /\ rdf[i].name = n
                                /\ \A k \in DOMAIN rdf : rdf[k].name = n => k <= i
                 IN rdf[last].cells]]

NRows(rdf) == IF rdf = <<>> THEN 0 ELSE Len(rdf[1].cells)

\* The cells in the order the two nested loops visit them.
CellOrder(rdf) ==
    [k \in 1..(Len(rdf) * NRows(rdf)) |->
        <<((k - 1) \div NRows(rdf)) + 1, ((k - 1) % NRows(rdf)) + 1>>]

\* A plausible bug: the factor branch written as the comment reads it
\* ("NA is the integer 0"), value == 0.
Marker_factor_zero(rclass, value) ==
    CASE rclass \in {"numeric", "integer"} ->
            IF value = NA_Real \/ value = NA_Integer THEN np_nan ELSE NoWrite
      [] rclass = "character" ->
            IF value = NA_Character THEN pd_NA ELSE NoWrite
      [] rclass = "logical" ->
            IF value = NA_Logical THEN pd_NA ELSE NoWrite
      [] rclass = "factor" ->
            IF value.v = 0 THEN pd_NA ELSE NoWrite
      [] OTHER -> NoWrite

\* The test of one branch of the NA pass: the marker it writes, or NoWrite.
Marker(rclass, value) ==
    CASE rclass \in {"numeric", "integer"} ->
            IF value = NA_Real \/ value = NA_Integer THEN np_nan ELSE NoWrite
      [] rclass = "character" ->
            IF value = NA_Character THEN pd_NA ELSE NoWrite
      [] rclass = "logical" ->
            IF value = NA_Logical THEN pd_NA ELSE NoWrite
      [] rclass = "factor" ->
            IF value.v <= 0 THEN pd_NA ELSE NoWrite
      [] OTHER -> NoWrite

\* pandas_df.loc[j, col_name] = m
LocSet(df, j, name, m) == [df EXCEPT !.data[name][j] = m]

\* A plausible bug: no try/except around the check, the error leaves the
\* function.
on_cell_error_propagate(acc, rdf, pos) == [acc EXCEPT !.raised = TRUE]

\* except Exception as e: print(...) -- the loop goes on with the next j.
on_cell_error(acc, rdf, pos) == [acc EXCEPT !.log = Append(@, pos)]

\* One iteration of the inner loop, for the cell at pos = <<i, j>>.
na_step(acc, rdf, raises, pos) ==
    LET col == rdf[pos[1]]
        m == Marker(col.rclass, col.cells[pos[2]])
    IN IF col.rclass \notin HandledClasses THEN acc
       ELSE IF pos \in raises THEN on_cell_error(acc, rdf, pos)
       ELSE IF m = NoWrite THEN acc
       ELSE [acc EXCEPT !.df = LocSet(@, pos[2], col.name, m),
                        !.writes = Append(@, pos)]

\* The two loops, from the k-th cell of the visiting order on; an exception
\* that leaves an iteration ends them.
RECURSIVE na_loop(_, _, _, _, _)
na_loop(acc, rdf, raises, order, k) ==
    IF k > Len(order) \/ acc.raised THEN acc
    ELSE na_loop(na_step(acc, rdf, raises, order[k]), rdf, raises, order, k + 1)

\* _replace_r_na_with_pandas_na: the table returned, the cells whose check
\* raised (each printed once), the cells whose check wrote a marker, and
\* whether an exception left the function.
replace_r_na_with_pandas_na(pandas_df, rdf, raises) ==
    na_loop([df |-> pandas_df, log |-> <<>>, writes |-> <<>>, raised |-> FALSE],
            rdf, raises, CellOrder(rdf), 1)

\* download_survey_data, given the data frame the R code evaluated to.
download_survey_data(rdf, raises) ==
    LET pre == ToPandas(rdf)
        r == replace_r_na_with_pandas_na(pre, rdf, raises)
    IN [src |-> rdf, pre |-> pre, out |-> r.df, log |-> r.log,
        writes |-> r.writes, raises |-> raises, raised |-> r.raised]

(***************************************************************************)
(* The data frames the survey package can hand back.                       *)
(***************************************************************************)
ColNames == {"q1", "q2"}
CellVals == {1}
Widths == {1, 2}

CellsOf(rclass) == {NAOf(rclass)} \cup {Val(x) : x \in CellVals}

ColumnsOf(n) ==
    UNION {[name : ColNames, rclass : {c}, cells : [1..n -> CellsOf(c)]]
             : c \in RClasses}

ResponseTables == UNION {[1..w -> ColumnsOf(n)] : w \in Widths, n \in 1..MaxRows}

\* The cells an NA check runs for.
CheckedCells(rdf) ==
    {pos \in Range(CellOrder(rdf)) : rdf[pos[1]].rclass \in HandledClasses}

RaiseSets(rdf) == {S \in SUBSET CheckedCells(rdf) : Cardinality(S) <= MaxRaise}

\* client.download_survey_data(sid): the R code returns the data frame the
\* service holds; the NA check fails on the cells of remote.raises.
DownloadReturns ==
    /\ pc = "ready"
    /\ remote.up
    /\ ret' = [op |-> "download_survey_data", fetched |-> TRUE]
                @@ download_survey_data(remote.rdf, remote.raises)
    /\ UNCHANGED <<pkgVars, rSurveys, lastSurveys, bulk, remote>>

\* client.download_survey_data(sid): the R code raises (no such survey, no
\* network, no token); nothing catches it.
DownloadRaises ==
    /\ pc = "ready"
    /\ ~remote.up
    /\ ret' = [op |-> "download_survey_data", fetched |-> FALSE, raised |-> TRUE]
    /\ UNCHANGED <<pkgVars, rSurveys, lastSurveys, bulk, remote>>

\* A constructed client: every package imported, nothing called yet.
Ready ==
    /\ pc = "ready"
    /\ client = [attrs |-> AllAttrs, returned |-> TRUE, failed |-> FALSE]
    /\ exitStatus = -1
    /\ packages = [p \in BasePkgs \cup Range(RequiredPkgs) |-> Handle(p, 0)]
    /\ rlib = Range(RequiredPkgs)
    /\ repo = {}
    /\ nImports = 0
    /\ nInstalls = 0
    /\ ret = NoCall

InitDownload ==
    /\ Ready
    /\ rSurveys = [bound |-> FALSE, df |-> NoTable]
    /\ lastSurveys = [bound |-> FALSE, df |-> NoTable]
    /\ bulk = NoBulk
    /\ \/ remote = NoRemote
       \/ \E rdf \in ResponseTables : \E raises \in RaiseSets(rdf) :
             remote = [up |-> TRUE, rdf |-> rdf, raises |-> raises]

NextDownload ==
    \/ DownloadReturns
    \/ DownloadRaises

SpecDownload == InitDownload /\ [][NextDownload]_vars

\* download_survey_data got a data frame from R / returned a table.
Fetched == ret.op = "download_survey_data" /\ ret.fetched
Returned == ret.op = "download_survey_data" /\ ~ret.raised

\* The cell of the returned table that source cell <<i, j>> is labelled with.
OutCell(pos) == ret.out.data[ret.src[pos[1]].name][pos[2]]
SrcCell(pos) == ret.src[pos[1]].cells[pos[2]]
AllCells == Range(CellOrder(ret.src))

C3_NonMissingUntouched ==
    Returned =>
      \A n \in DOMAIN ret.pre.data : \A j \in DOMAIN ret.pre.data[n] :
        ~RMissing(ret.pre.data[n][j]) => ret.out.data[n][j] = ret.pre.data[n][j]

\* C4 as claimed: the returned table has the source's column names, as many
\* and in the same order.
C4_ColumnNamesVerbatim ==
    Returned => ret.out.columns = Names(ret.src)

\* The columns other than i that carry column i's name.
Namesakes(i) == {k \in DOMAIN ret.src : k # i /\ ret.src[k].name = ret.src[i].name}

MaxKw == 2          \* length of a keyword

\* The titles a survey can carry; a title cell holds an index into them.
Titles == << <<"a", "b">>, <<"b", "b">>, <<"b">> >>
TitleText(cell) == Titles[cell.v]

\* The keywords passed to filter_surveys: letters, and the character ".".
KwChars == {"a", "b", "."}
Keywords == UNION {[1..k -> KwChars] : k \in 1..MaxKw}

\* The title contains the keyword, character for character.
Contains(text, kw) ==
    \E off \in 0..(Len(text) - Len(kw)) :
        \A k \in 1..Len(kw) : text[off + k] = kw[k]

\* stringr's str_detect(title, "<keyword>"): the keyword is the pattern, a
\* regular expression, in which "." matches any one character.
str_detect(text, kw) ==
    \E off \in 0..(Len(text) - Len(kw)) :
        \A k \in 1..Len(kw) : kw[k] = "." \/ text[off + k] = kw[k]

\* The survey lists browse_surveys can return, and the R global `surveys`
\* can hold: an id column and a title column, the title possibly NA.
SurveyLists ==
    UNION {{<<[name |-> "id", rclass |-> "character",
               cells |-> [j \in 1..n |-> Val(j)]],
              [name |-> "title", rclass |-> "character", cells |-> t]>>
              : t \in [1..n -> {NA_Character} \cup {Val(k) : k \in DOMAIN Titles}]}
             : n \in 0..MaxRows}

ColumnNamed(rdf, name) == rdf[CHOOSE i \in DOMAIN rdf : rdf[i].name = name]

\* dplyr's filter: the rows for which the test is TRUE (not FALSE, not NA),
\* every column kept.
FilterRows(rdf, kw) ==
    LET title == ColumnNamed(rdf, "title").cells
        keep == SelectSeq([j \in 1..NRows(rdf) |-> j],
                          LAMBDA j : /\ ~RMissing(title[j])
                                     /\ str_detect(TitleText(title[j]), kw))
    IN [i \in DOMAIN rdf |->
          [rdf[i] EXCEPT !.cells = [k \in 1..Len(keep) |-> rdf[i].cells[keep[k]]]]]

\* The rows of a pandas table, each a record of its cells by column label.
PandasRows(df) ==
    IF df.columns = <<>> THEN {}
    ELSE {[n \in DOMAIN df.data |-> df.data[n][j]]
            : j \in 1..Len(df.data[df.columns[1]])}

\* filter_surveys(keyword): evaluates `surveys %>% filter(title %>%
\* str_detect("keyword"))` in the R global environment and converts.
filter_surveys(surveys, kw) ==
    IF ~surveys.bound
    THEN [raised |-> TRUE]      \* object 'surveys' not found
    ELSE [raised |-> FALSE, out |-> ToPandas(FilterRows(surveys.df, kw))]

\* client.get_available_surveys(limit): browse_surveys returns the list the
\* service holds; the result is converted and returned.  Nothing is
\* assigned in R.
GetAvailableSurveys ==
    /\ pc = "ready"
    /\ remote.up
    /\ ret' = [op |-> "get_available_surveys", raised |-> FALSE,
               out |-> ToPandas(remote.rdf)]
    /\ lastSurveys' = [bound |-> TRUE, df |-> remote.rdf]
    /\ UNCHANGED <<pkgVars, rSurveys, bulk, remote>>

\* client.get_available_surveys(limit): browse_surveys raises.
GetAvailableSurveysRaises ==
    /\ pc = "ready"
    /\ ~remote.up
    /\ ret' = [op |-> "get_available_surveys", raised |-> TRUE]
    /\ UNCHANGED <<pkgVars, rSurveys, lastSurveys, bulk, remote>>

FilterSurveys(kw) ==
    /\ pc = "ready"
    /\ ret' = [op |-> "filter_surveys", kw |-> kw] @@ filter_surveys(rSurveys, kw)
    /\ UNCHANGED <<pkgVars, rSurveys, lastSurveys, bulk, remote>>

\* The R session starts with `surveys` unbound, or bound by a restored
\* workspace to a list saved earlier.
InitSurveys ==
    /\ Ready
    /\ rSurveys \in {[bound |-> FALSE, df |-> NoTable]}
                      \cup {[bound |-> TRUE, df |-> t] : t \in SurveyLists}
    /\ lastSurveys = [bound |-> FALSE, df |-> NoTable]
    /\ bulk = NoBulk
    /\ remote \in {NoRemote}
                    \cup {[up |-> TRUE, rdf |-> t, raises |-> {}] : t \in SurveyLists}

NextSurveys ==
    \/ GetAvailableSurveys
    \/ GetAvailableSurveysRaises
    \/ \E kw \in Keywords : FilterSurveys(kw)

SpecSurveys == InitSurveys /\ [][NextSurveys]_vars

\* C6 as claimed: every row filter_surveys(keyword) returns has a title that
\* contains the keyword.
C6_FilteredTitlesContainKeyword ==
    (ret.op = "filter_surveys" /\ ~ret.raised) =>
      \A row \in PandasRows(ret.out) :
        /\ ~RMissing(row["title"])
        /\ Contains(TitleText(row["title"]), ret.kw)

\* C10 as claimed: once get_available_surveys has returned a list,
\* filter_surveys filters that list: it does not fail for want of a list and
\* every row it returns is a row of the list retrieved last.
C10_FilterUsesRetrievedList ==
    (ret.op = "filter_surveys" /\ lastSurveys.bound) =>
      /\ ~ret.raised
      /\ PandasRows(ret.out) \subseteq PandasRows(ToPandas(lastSurveys.df))

(***************************************************************************)
(* download_multiple_surveys                                               *)
(***************************************************************************)
SurveyIds == {101, 102}

\* A value of the returned dict: a table, or None.
None == [none |-> TRUE, df |-> [columns |-> <<>>, data |-> <<>>]]
Table(df) == [none |-> FALSE, df |-> df]

\* What one download_survey_data call of the loop can meet: the R code
\* raising, or a one-cell integer table, its NA check raising or not.
BulkAnswers ==
    {[up |-> FALSE, rdf |-> NoTable, raises |-> {}]}
      \cup {[up |-> TRUE, rdf |-> t, raises |-> r]
              : t \in {x \in ResponseTables :
                          /\ Len(x) = 1 /\ NRows(x) = 1
                          /\ x[1].name = "q1" /\ x[1].rclass = "integer"},
                r \in {{}, {<<1, 1>>}}}

\* A plausible bug: the handler only prints, the id gets no entry.
on_download_error_no_entry(b, sid) ==
    [b EXCEPT !.log = Append(@, [id |-> sid, value |-> None]),
              !.i = @ + 1]

\* A plausible bug: the handler records None and gives the batch up.
on_download_error_break(b, sid) ==
    [b EXCEPT !.dict = DictSet(@, sid, None),
              !.log = Append(@, [id |-> sid, value |-> None]),
              !.i = Len(b.ids) + 1]

\* except Exception as e: print(...); survey_data_dict[survey_id] = None
on_download_error(b, sid) ==
    [b EXCEPT !.dict = DictSet(@, sid, None),
              !.log = Append(@, [id |-> sid, value |-> None]),
              !.i = @ + 1]

\* The body of the loop for survey_ids[i], the download answered by ans.
\* log: per attempt, the id and what its download gave (None: it raised).
bulk_iteration(b, ans) ==
    LET sid == b.ids[b.i]
        r == IF ans.up THEN download_survey_data(ans.rdf, ans.raises)
             ELSE [raised |-> TRUE]
    IN IF r.raised THEN on_download_error(b, sid)
       ELSE [b EXCEPT !.dict = DictSet(@, sid, Table(r.out)),
                      !.log = Append(@, [id |-> sid, value |-> Table(r.out)]),
                      !.i = @ + 1]

\* client.download_multiple_surveys(ids) is called: survey_data_dict = {}.
BulkCall(ids) ==
    /\ pc = "ready"
    /\ ~bulk.active
    /\ ret.op = "none"
    /\ bulk' = [active |-> TRUE, ids |-> ids, i |-> 1, dict |-> <<>>, log |-> <<>>]
    /\ UNCHANGED <<pkgVars, rSurveys, lastSurveys, remote, ret>>

\* One iteration of the for loop.
BulkIteration ==
    /\ bulk.active
    /\ bulk.i <= Len(bulk.ids)
    /\ \E ans \in BulkAnswers : bulk' = bulk_iteration(bulk, ans)
    /\ UNCHANGED <<pkgVars, rSurveys, lastSurveys, remote, ret>>

\* return survey_data_dict
BulkReturn ==
    /\ bulk.active
    /\ bulk.i > Len(bulk.ids)
    /\ ret' = [op |-> "download_multiple_surveys", ids |-> bulk.ids,
               result |-> bulk.dict, log |-> bulk.log]
    /\ bulk' = NoBulk
    /\ UNCHANGED <<pkgVars, rSurveys, lastSurveys, remote>>

InitBulk ==
    /\ Ready
    /\ rSurveys = [bound |-> FALSE, df |-> NoTable]
    /\ lastSurveys = [bound |-> FALSE, df |-> NoTable]
    /\ bulk = NoBulk
    /\ remote = NoRemote

NextBulk ==
    \/ \E ids \in SeqsUpTo(SurveyIds, MaxIds) : BulkCall(ids)
    \/ BulkIteration
    \/ BulkReturn

SpecBulk == InitBulk /\ [][NextBulk]_vars

BulkReturned == ret.op = "download_multiple_surveys"

\* The last attempt made for an id.
LastAttempt(log, sid) ==
    log[CHOOSE k \in DOMAIN log :
          log[k].id = sid /\ \A m \in DOMAIN log : log[m].id = sid => m <= k]

\* C1 as claimed: for a list of N ids the mapping has N entries, and every
\* id for which a download raised is mapped to None.
C1_MappingOfSizeN ==
    BulkReturned =>
      /\ Cardinality(DOMAIN ret.result) = Len(ret.ids)
      /\ \A k \in DOMAIN ret.log :
           ret.log[k].value = None => ret.result[ret.log[k].id] = None

\* C1 amended: the mapping has one entry per distinct id of the list (N
\* entries when the N ids are pairwise distinct), and every id whose last
\* download raised is mapped to None.
C1_MappingOfDistinctIds ==
    BulkReturned =>
      /\ DOMAIN ret.result = Range(ret.ids)
      /\ (Cardinality(Range(ret.ids)) = Len(ret.ids)
            => Cardinality(DOMAIN ret.result) = Len(ret.ids))
      /\ \A sid \in Range(ret.ids) :
           (sid \in {ret.log[k].id : k \in DOMAIN ret.log}
              /\ LastAttempt(ret.log, sid).value = None)
           => (sid \in DOMAIN ret.result /\ ret.result[sid] = None)

\* Two distinct ids, the download of the first raised.
C1_Witness ==
    /\ BulkReturned
    /\ Len(ret.ids) = 2 /\ ret.ids[1] # ret.ids[2]
    /\ ret.log[1].value = None
    /\ ret.result[ret.ids[1]] = None
    /\ Cardinality(DOMAIN ret.result) = 2

\* C9: the ids are attempted one by one in list order, an attempt that raises
\* does not end the loop, and at return every id of the list has been
\* attempted and is mapped to what its own (for a repeated id: its last)
\* download gave: None if and only if it raised, the table otherwise.
C9_BatchContinues ==
    /\ bulk.active =>
         /\ Len(bulk.log) = bulk.i - 1
         /\ bulk.i <= Len(bulk.ids) + 1
         /\ \A k \in DOMAIN bulk.log : bulk.log[k].id = bulk.ids[k]
    /\ BulkReturned =>
         /\ Len(ret.log) = Len(ret.ids)
         /\ \A k \in DOMAIN ret.log : ret.log[k].id = ret.ids[k]
         /\ \A sid \in Range(ret.ids) :
              /\ sid \in DOMAIN ret.result
              /\ ret.result[sid] = LastAttempt(ret.log, sid).value

\* A batch whose first download raised and whose last returned a table.
C9_Witness ==
    /\ BulkReturned
    /\ Len(ret.ids) = 3
    /\ ret.log[1].value = None
    /\ ret.log[3].value # None
    /\ ret.ids[3] # ret.ids[1]
    /\ ret.result[ret.ids[3]] = ret.log[3].value

====
